---- MODULE Spec2Model ----
(***************************************************************************)
(* A model of ngram.py: n-gram extraction, the n-gram index table, title   *)
(* vectors, cosine scoring, the selection policies and the evaluation     *)
(* loop of the main script.                                               *)
(*                                                                         *)
(* Representation of the Python values:                                   *)
(*   - a character is a one-character string, a text a sequence of them;  *)
(*   - a word (token) is a non-empty sequence of non-blank characters;    *)
(*   - an n-gram (a Python tuple of words) is a sequence of words;        *)
(*   - a dict is a function (index table) or, where the code iterates     *)
(*     over its keys, the sequence of its entries in insertion order;     *)
(*   - a user identifier is a natural number; the order of the numbers    *)
(*     is the order Python's comparison gives the identifiers;            *)
(*   - a cosine is kept exactly, as the square inner^2 / (|c|^2 * |t|^2)  *)
(*     of a non-negative quotient, or as NaN (numpy's 0/0). Two floats of *)
(*     the code are equal whenever they are computed from the same inner  *)
(*     product and norms, or from inner product 0; these are the only     *)
(*     ties among the 0/1 vectors of SpecClassify.                        *)
(***************************************************************************)
EXTENDS Integers, Sequences, FiniteSets, TLC

VARIABLES
    pc,                     \* position in the script / which call was made
    error,                  \* the exception that ended the run, "none" otherwise
    words,                  \* the word list given to build_index_table
    all_grams_index_table,  \* the index table: n-gram -> index
    title_words,            \* the word list given to build_title_vector
    title_vector,           \* the outcome of build_title_vector
    categories,             \* the category table: entries [user, vector] in key order
    cosines,                \* the list all_cosines returned to classify
    selected,               \* the candidates the selection policy returned
    tally,                  \* the counters true_positive, true_negative,
                            \* false_positive, false_negative
    count,                  \* validation examples processed
    user,                   \* the true user of the last example
    predictions,            \* the users predicted for the last example
    known_users,            \* set(val_users)
    titles, users,          \* the training titles and their users
    val_titles, val_users,  \* the validation titles and their users
    user2full_title,        \* entries [user, title] in key order (training)
    user2full_title_val,    \* entries [user, title] in key order (validation)
    stats                   \* the outcome of the last print_stats

vars == <<pc, error, words, all_grams_index_table, title_words, title_vector,
          categories, cosines, selected, tally, count, user, predictions,
          known_users, titles, users, val_titles, val_users, user2full_title,
          user2full_title_val, stats>>

\* the variables of the main script alone
main_vars == <<titles, users, val_titles, val_users, user2full_title,
               user2full_title_val, stats>>

\* the variables of the evaluation loop
eval_vars == <<tally, count, user, predictions, known_users>>

\* the variables of the index table and the title vector
index_vars == <<words, all_grams_index_table, title_words, title_vector>>

\* the variables of the classification
classify_vars == <<categories, cosines, selected>>

----------------------------------------------------------------------------
(* Bounds of the model and constants of the program *)

\* the default order of all_grams (n=3)
N == 3
\* longest word list given to build_index_table in SpecIndex
MaxWords == 3
\* longest word list given to build_title_vector in SpecIndex
MaxTitleWords == 3
\* number of user identifiers
NumUsers == 3
\* most entries of a category table in SpecClassify
MaxCategories == 2
\* length of the vectors in SpecClassify
Dim == 2
\* evaluation steps taken in SpecStep
MaxSteps == 2
\* most training examples in SpecMain
MaxTraining == 1
\* most validation examples in SpecMain
MaxValidation == 2
\* print_stats is called every StatsPeriod examples
StatsPeriod == 50
\* most validation examples in SpecEval
MaxExamples == 50
\* most entries of the category table in SpecEval
MaxEvalCategories == 1
\* the longest list a selection policy returns: [x1, x2] of top2
MaxPredictions == 2

Users == 1..NumUsers

\* the words of the pure-function specifications
Tokens == {<<"a">>, <<"b">>}

SeqsUpTo(S, n) == UNION {[1..k -> S] : k \in 0..n}

Range(s) == {s[i] : i \in DOMAIN s}

----------------------------------------------------------------------------
(* n-grams *)

\* zip(*[text[i:] for i in range(n)]): the k-th tuple takes its j-th component
\* from text[j-1:], and zip stops with the shortest slice, text[n-1:]
n_gram(text, n) ==
    LET shortest == IF Len(text) - (n - 1) > 0 THEN Len(text) - (n - 1) ELSE 0
    IN  [k \in 1..shortest |-> [j \in 1..n |-> text[(j - 1) + k]]]

RECURSIVE all_grams_loop(_, _, _, _)
all_grams_loop(text, n, i, grams) ==
    IF i >= n THEN grams
    ELSE all_grams_loop(text, n, i + 1, grams \o n_gram(text, i + 1))

\* faulty variant: range(n-1), the highest order is never extracted
all_grams_short(text, n) == all_grams_loop(text, n - 1, 0, <<>>)

all_grams(text, n) == all_grams_loop(text, n, 0, <<>>)

----------------------------------------------------------------------------
(* The index table *)

\* the orders in which Python may iterate over a set: every one of them
RECURSIVE SetOrders(_)
SetOrders(S) ==
    IF S = {} THEN {<<>>}
    ELSE UNION {{<<x>> \o rest : rest \in SetOrders(S \ {x})} : x \in S}

RECURSIVE enumerate_into(_, _, _)
enumerate_into(table, grams, index) ==
    IF index >= Len(grams) THEN table
    ELSE LET gram == grams[index + 1]
         IN  enumerate_into(
                 [g \in (DOMAIN table) \cup {gram} |->
                     IF g = gram THEN index ELSE table[g]],
                 grams, index + 1)

\* faulty variant: enumerates the list of n-grams instead of the set of them
build_index_table_list(wordlist, order) ==
    enumerate_into(<<>>, all_grams(wordlist, N), 0)

\* order is the order in which the set `grams` is iterated
build_index_table(wordlist, order) == enumerate_into(<<>>, order, 0)

\* set(all_grams(words))
gram_set(wordlist) == Range(all_grams(wordlist, N))

----------------------------------------------------------------------------
(* Title vectors *)

NoVector == [error |-> "none", vector |-> <<>>]

RECURSIVE title_vector_loop(_, _, _, _)
title_vector_loop(table, grams, i, vector) ==
    IF i > Len(grams) THEN [error |-> "none", vector |-> vector]
    ELSE IF grams[i] \notin DOMAIN table
         THEN [error |-> "KeyError", vector |-> <<>>]
         ELSE title_vector_loop(table, grams, i + 1,
                  [vector EXCEPT ![table[grams[i]] + 1] = @ + 1])

RECURSIVE title_vector_skip(_, _, _, _)
title_vector_skip(table, grams, i, vector) ==
    IF i > Len(grams) THEN [error |-> "none", vector |-> vector]
    ELSE IF grams[i] \notin DOMAIN table
         THEN title_vector_skip(table, grams, i + 1, vector)
         ELSE title_vector_skip(table, grams, i + 1,
                  [vector EXCEPT ![table[grams[i]] + 1] = @ + 1])

\* faulty variant: table.get(gram), a missing n-gram is skipped
build_title_vector_get(table, wordlist) ==
    title_vector_skip(table, all_grams(wordlist, N), 1,
        [i \in 1..Cardinality(DOMAIN table) |-> 0])

\* faulty variant: n-grams of order 1 and 2 only
build_title_vector_short(table, wordlist) ==
    title_vector_loop(table, all_grams_short(wordlist, N), 1,
        [i \in 1..Cardinality(DOMAIN table) |-> 0])

\* slot index+1 of the sequence is vector[index] of the Python list
build_title_vector(table, wordlist) ==
    title_vector_loop(table, all_grams(wordlist, N), 1,
        [i \in 1..Cardinality(DOMAIN table) |-> 0])

----------------------------------------------------------------------------
(* Texts *)

\* str.split(): the maximal runs of non-blank characters
RECURSIVE split_loop(_, _, _, _)
split_loop(text, i, word, out) ==
    IF i > Len(text)
    THEN IF word = <<>> THEN out ELSE Append(out, word)
    ELSE IF text[i] = " "
         THEN split_loop(text, i + 1, <<>>,
                         IF word = <<>> THEN out ELSE Append(out, word))
         ELSE split_loop(text, i + 1, Append(word, text[i]), out)

split(text) == split_loop(text, 1, <<>>, <<>>)

\* sep.join(texts)
RECURSIVE join(_, _)
join(sep, texts) ==
    IF texts = <<>> THEN <<>>
    ELSE IF Len(texts) = 1 THEN texts[1]
    ELSE texts[1] \o sep \o join(sep, Tail(texts))

\* the first loop of user_titles_table: table[user] is the list of the
\* user's titles; a new key goes to the end of the dict
RECURSIVE collect_titles(_, _, _, _)
collect_titles(raw_titles, raw_users, i, table) ==
    IF i > Len(raw_titles) \/ i > Len(raw_users) THEN table
    ELSE LET at == {k \in DOMAIN table : table[k].user = raw_users[i]}
         IN  IF at = {}
             THEN collect_titles(raw_titles, raw_users, i + 1,
                      Append(table, [user |-> raw_users[i],
                                     title |-> <<raw_titles[i]>>]))
             ELSE LET k == CHOOSE k \in at : TRUE
                  IN  collect_titles(raw_titles, raw_users, i + 1,
                          [table EXCEPT ![k].title = Append(@, raw_titles[i])])

\* faulty variant: the titles of a user are joined without a separator
user_titles_table_nosep(raw_titles, raw_users) ==
    LET table == collect_titles(raw_titles, raw_users, 1, <<>>)
    IN  [k \in DOMAIN table |->
            [user |-> table[k].user, title |-> join(<<>>, table[k].title)]]

user_titles_table(raw_titles, raw_users) ==
    LET table == collect_titles(raw_titles, raw_users, 1, <<>>)
    IN  [k \in DOMAIN table |->
            [user |-> table[k].user, title |-> join(<<" ">>, table[k].title)]]

\* words.extend(table[user].split()) for every user of the table
RECURSIVE extend_words(_, _)
extend_words(wordlist, table) ==
    IF table = <<>> THEN wordlist
    ELSE extend_words(wordlist \o split(table[1].title), Tail(table))

\* faulty variant: the words of the validation texts are left out
corpus_words_training(training_table, validation_table) ==
    extend_words(<<>>, training_table)

\* the word list of the main script: the words of all training texts, then
\* the words of all validation texts
corpus_words(training_table, validation_table) ==
    extend_words(extend_words(<<>>, training_table), validation_table)

----------------------------------------------------------------------------
(* print_stats *)

NoStats == [error |-> "none", precision |-> <<0, 1>>, recall |-> <<0, 1>>,
            f1_score |-> <<0, 1>>]

DivisionByZero == [error |-> "ZeroDivisionError", precision |-> <<0, 1>>,
                   recall |-> <<0, 1>>, f1_score |-> <<0, 1>>]

\* quotients <<numerator, denominator>>
FracMul(a, b) == <<a[1] * b[1], a[2] * b[2]>>
FracAdd(a, b) == <<a[1] * b[2] + b[1] * a[2], a[2] * b[2]>>
FracDiv(a, b) == <<a[1] * b[2], a[2] * b[1]>>

\* the three divisions of print_stats, in order; a zero divisor raises
\* ZeroDivisionError (the operands are Python ints and floats)
print_stats(true_positive, true_negative, false_negative, false_positive, total) ==
    IF true_positive + false_positive = 0 THEN DivisionByZero
    ELSE IF true_positive + false_negative = 0 THEN DivisionByZero
    ELSE LET precision == <<true_positive, true_positive + false_positive>>
             recall == <<true_positive, true_positive + false_negative>>
             sum == FracAdd(precision, recall)
         IN  IF sum[1] = 0 THEN DivisionByZero
             ELSE [error |-> "none", precision |-> precision, recall |-> recall,
                   f1_score |-> FracMul(<<2, 1>>,
                                   FracDiv(FracMul(precision, recall), sum))]

----------------------------------------------------------------------------
(* The counters of the evaluation loop *)

\* true_positive = true_negative = false_positive = false_negative = 0
ZeroTally == [true_positive |-> 0, true_negative |-> 0,
              false_positive |-> 0, false_negative |-> 0]

\* for prediction in predictions: ...
RECURSIVE count_predictions(_, _, _, _)
count_predictions(c, true_user, predicted, i) ==
    IF i > Len(predicted) THEN c
    ELSE IF predicted[i] = true_user
         THEN count_predictions([c EXCEPT !.true_positive = @ + 1],
                                true_user, predicted, i + 1)
         ELSE count_predictions([c EXCEPT !.false_positive = @ + 1],
                                true_user, predicted, i + 1)

\* for not_prediction in <set>: ...
RECURSIVE count_not_predictions(_, _, _)
count_not_predictions(c, true_user, rest) ==
    IF rest = {} THEN c
    ELSE LET not_prediction == CHOOSE u \in rest : TRUE
         IN  IF not_prediction = true_user
             THEN count_not_predictions([c EXCEPT !.false_negative = @ + 1],
                                        true_user, rest \ {not_prediction})
             ELSE count_not_predictions([c EXCEPT !.true_negative = @ + 1],
                                        true_user, rest \ {not_prediction})

\* faulty variant: the second loop runs over all of set(val_users)
evaluate_all_users(c, true_user, predicted, known) ==
    count_not_predictions(count_predictions(c, true_user, predicted, 1),
                          true_user, known)

\* the two loops, over predictions and over set(val_users) - set(predictions);
\* known is set(val_users)
evaluate(c, true_user, predicted, known) ==
    count_not_predictions(count_predictions(c, true_user, predicted, 1),
                          true_user, known \ Range(predicted))

----------------------------------------------------------------------------
(* SpecIndex: build_index_table on any word list, then build_title_vector *)
(* on any word list.                                                      *)

\* the values of the variables a specification makes no use of
NoClassification == categories = <<>> /\ cosines = <<>> /\ selected = <<>>
NoEvaluation ==
    /\ tally = ZeroTally
    /\ count = 0
    /\ user = 0
    /\ predictions = <<>>
    /\ known_users = {}
NoIndex ==
    /\ words = <<>>
    /\ all_grams_index_table = <<>>
    /\ title_words = <<>>
    /\ title_vector = NoVector
NoData ==
    /\ titles = <<>>
    /\ users = <<>>
    /\ val_titles = <<>>
    /\ val_users = <<>>
    /\ user2full_title = <<>>
    /\ user2full_title_val = <<>>
    /\ stats = NoStats

InitIndex ==
    /\ pc = "start"
    /\ error = "none"
    /\ words \in SeqsUpTo(Tokens, MaxWords)
    /\ all_grams_index_table = <<>>
    /\ title_words = <<>>
    /\ title_vector = NoVector
    /\ NoClassification
    /\ NoEvaluation
    /\ NoData

BuildIndexTable ==
    /\ pc = "start"
    /\ \E order \in SetOrders(gram_set(words)) :
           all_grams_index_table' = build_index_table(words, order)
    /\ pc' = "indexed"
    /\ UNCHANGED <<error, words, title_words, title_vector, classify_vars,
                   eval_vars, main_vars>>

BuildTitleVector ==
    /\ pc = "indexed"
    /\ \E t \in SeqsUpTo(Tokens, MaxTitleWords) :
           /\ title_words' = t
           /\ title_vector' = build_title_vector(all_grams_index_table, t)
    /\ error' = title_vector'.error
    /\ pc' = "vectorized"
    /\ UNCHANGED <<words, all_grams_index_table, classify_vars, eval_vars,
                   main_vars>>

NextIndex == BuildIndexTable \/ BuildTitleVector

SpecIndex == InitIndex /\ [][NextIndex]_vars

----------------------------------------------------------------------------
(* Claims checked under SpecIndex *)

\* the windows of 1 to N consecutive words of a word list, as a set
Windows(wordlist) ==
    {SubSeq(wordlist, i, i + k - 1) :
        <<i, k>> \in {<<i, k>> \in (1..Len(wordlist)) \X (1..N) :
                          i + k - 1 <= Len(wordlist)}}

\* how often gram g occurs as a window of consecutive words of wordlist
Occurrences(g, wordlist) ==
    Cardinality({i \in 1..Len(wordlist) :
        /\ i + Len(g) - 1 <= Len(wordlist)
        /\ SubSeq(wordlist, i, i + Len(g) - 1) = g})

\* C7: for every word list (the empty one included) the table returned by
\* build_index_table has exactly one key per distinct n-gram of order 1 to 3,
\* maps distinct n-grams to distinct indices, and its indices are exactly
\* 0 .. size-1; n-grams of different orders are distinct keys.
C7_IndexIsBijection ==
    pc \in {"indexed", "vectorized"} =>
        LET table == all_grams_index_table
            size == Cardinality(DOMAIN table)
        IN  /\ DOMAIN table = Windows(words)
            /\ \A g, h \in DOMAIN table : g # h => table[g] # table[h]
            /\ {table[g] : g \in DOMAIN table} = 0..(size - 1)
            /\ \A k \in 1..N :
                   Cardinality({g \in DOMAIN table : Len(g) = k})
                     = Cardinality({w \in Windows(words) : Len(w) = k})

\* the table of a three-word list with five distinct n-grams of three orders
C7_Witness ==
    /\ pc = "indexed"
    /\ Len(words) = 3
    /\ Cardinality(DOMAIN all_grams_index_table) = 5
    /\ \E g, h \in DOMAIN all_grams_index_table : Len(g) = 1 /\ Len(h) = 3

\* C8: when every n-gram of the word list is in the table, build_title_vector
\* returns a vector as long as the table in which slot table[g] counts the
\* occurrences of g in the word list, for every g of the table; the empty
\* word list gives the all-zero vector.
C8_VectorCountsOccurrences ==
    (pc = "vectorized" /\ Windows(title_words) \subseteq DOMAIN all_grams_index_table) =>
        LET table == all_grams_index_table
            vector == title_vector.vector
        IN  /\ title_vector.error = "none"
            /\ Len(vector) = Cardinality(DOMAIN table)
            /\ \A g \in DOMAIN table :
                   vector[table[g] + 1] = Occurrences(g, title_words)
            /\ title_words = <<>> => \A i \in DOMAIN vector : vector[i] = 0

\* a vector with a slot counting two occurrences, a slot of a 2-gram counting
\* one, and a slot left at zero
C8_Witness ==
    /\ pc = "vectorized"
    /\ Windows(title_words) \subseteq DOMAIN all_grams_index_table
    /\ title_vector.error = "none"
    /\ \E g, h, z \in DOMAIN all_grams_index_table :
           /\ title_vector.vector[all_grams_index_table[g] + 1] = 2
           /\ Len(h) = 2
           /\ title_vector.vector[all_grams_index_table[h] + 1] = 1
           /\ title_vector.vector[all_grams_index_table[z] + 1] = 0

\* C4: a call of build_title_vector with a word list that has an n-gram absent
\* from the table fails (KeyError), returns no vector, and leaves the table
\* as it was.
C4_MissingGramFails ==
    [][(/\ pc = "indexed"
        /\ pc' = "vectorized"
        /\ ~(Windows(title_words') \subseteq DOMAIN all_grams_index_table))
       => (/\ title_vector'.error = "KeyError"
           /\ title_vector'.vector = <<>>
           /\ error' = "KeyError"
           /\ all_grams_index_table' = all_grams_index_table)]_vars

\* a failed call whose word list also holds n-grams that are in the table
C4_Witness ==
    /\ pc = "vectorized"
    /\ title_vector.error = "KeyError"
    /\ all_grams_index_table # <<>>
    /\ \E g \in Windows(title_words) : g \in DOMAIN all_grams_index_table
    /\ \E g \in Windows(title_words) : g \notin DOMAIN all_grams_index_table

----------------------------------------------------------------------------
(* Cosine similarity *)

NaN == [nan |-> TRUE, num |-> 0, den |-> 0]

RECURSIVE dot(_, _)
dot(a, b) ==
    IF a = <<>> THEN 0 ELSE a[1] * b[1] + dot(Tail(a), Tail(b))

\* sum(map(lambda x: x**2, v)): the square of the norm; the square root is
\* kept symbolic
sum_squares(v) == dot(v, v)

\* inner / (dist_category * dist_title). inner is a numpy scalar, so a zero
\* divisor gives nan (inner is 0 then) and a warning, not an exception.
\* The quotient is not negative, so it is known by its square.
cosine_similarity(category_vector, title_vec) ==
    LET inner == dot(category_vector, title_vec)
        sq_category == sum_squares(category_vector)
        sq_title == sum_squares(title_vec)
    IN  IF sq_category * sq_title = 0 THEN NaN
        ELSE [nan |-> FALSE, num |-> inner * inner, den |-> sq_category * sq_title]

\* the comparisons of floats: every comparison with nan is false
CosGT(a, b) == ~a.nan /\ ~b.nan /\ a.num * b.den > b.num * a.den
CosEq(a, b) == ~a.nan /\ ~b.nan /\ a.num * b.den = b.num * a.den
CosGE(a, b) == CosGT(a, b) \/ CosEq(a, b)

all_cosines(category_vector_table, title_vec) ==
    [index \in 1..Len(category_vector_table) |->
        [cosine |-> cosine_similarity(category_vector_table[index].vector, title_vec),
         user |-> category_vector_table[index].user]]

----------------------------------------------------------------------------
(* Selection policies *)

\* faulty variant: compares the scores alone, as max(x, key=score) would: of equal
\* scores the first stays
TupleGT_score_only(a, b) == CosGT(a.cosine, b.cosine)

\* (cosine_a, user_a) > (cosine_b, user_b): the first components that are not
\* equal decide
TupleGT(a, b) ==
    IF CosEq(a.cosine, b.cosine) THEN a.user > b.user
    ELSE CosGT(a.cosine, b.cosine)

\* max over a non-empty iterable: the first item, replaced by each later item
\* that compares greater
RECURSIVE py_max_loop(_, _, _)
py_max_loop(x, i, best) ==
    IF i > Len(x) THEN best
    ELSE py_max_loop(x, i + 1, IF TupleGT(x[i], best) THEN x[i] ELSE best)

py_max(x) == py_max_loop(x, 2, x[1])

\* Python objects as members of a set: tuples, floats and strings are never
\* equal to each other
PyTuple(t) == [type |-> "tuple", cosine |-> t.cosine, user |-> t.user]
PyFloat(c) == [type |-> "float", cosine |-> c, user |-> 0]
PyStr(u) == [type |-> "str", cosine |-> NaN, user |-> u]

\* set(x) - set(x1): set(x) holds the tuples of the list, set(x1) the two
\* components of the tuple x1
top2_rest(x, x1) ==
    LET set_x == {PyTuple(x[i]) : i \in DOMAIN x}
        set_x1 == {PyFloat(x1.cosine), PyStr(x1.user)}
    IN  {[cosine |-> o.cosine, user |-> o.user] : o \in set_x \ set_x1}

\* lambda x: [max(x)]
top1(x) == <<py_max(x)>>

\* order is the order in which max iterates over the set set(x) - set(x1)
top2(x, order) == <<py_max(x), py_max(order)>>

\* the outcomes of classify: the policy applied to the scored list; max of
\* an empty list raises ValueError
classify(category_vector_table, title_vec, predicate) ==
    LET x == all_cosines(category_vector_table, title_vec)
    IN  IF x = <<>> THEN {[error |-> "ValueError", selected |-> <<>>]}
        ELSE IF predicate = "top1" THEN {[error |-> "none", selected |-> top1(x)]}
        ELSE {[error |-> "none", selected |-> top2(x, order)] :
                 order \in SetOrders(top2_rest(x, py_max(x)))}

----------------------------------------------------------------------------
(* SpecClassify: classify on any category table and query vector, with the *)
(* default policy and with top2.                                           *)

Vectors == [1..Dim -> {0, 1}]

\* the category tables: up to MaxCategories entries, one per user
CategoryTables ==
    {t \in SeqsUpTo([user : Users, vector : Vectors], MaxCategories) :
        \A i, j \in DOMAIN t : i # j => t[i].user # t[j].user}

InitClassify ==
    /\ pc = "given"
    /\ error = "none"
    /\ words = <<>>
    /\ all_grams_index_table = <<>>
    /\ title_words = <<>>
    /\ title_vector \in {[error |-> "none", vector |-> v] : v \in Vectors}
    /\ categories \in CategoryTables
    /\ cosines = <<>>
    /\ selected = <<>>
    /\ NoEvaluation
    /\ NoData

\* a call classify(categories, title_vector, predicate)
Classified(predicate) ==
    /\ cosines' = all_cosines(categories, title_vector.vector)
    /\ \E outcome \in classify(categories, title_vector.vector, predicate) :
           /\ selected' = outcome.selected
           /\ error' = outcome.error
    /\ pc' = predicate
    /\ UNCHANGED <<index_vars, categories, eval_vars, main_vars>>

ClassifyDefault ==
    /\ pc = "given"
    /\ Classified("top1")

ClassifyTop2 ==
    /\ pc = "given"
    /\ Classified("top2")

NextClassify == ClassifyDefault \/ ClassifyTop2

SpecClassify == InitClassify /\ [][NextClassify]_vars

----------------------------------------------------------------------------
(* Claims checked under SpecClassify *)

ZeroVector(v) == \A i \in DOMAIN v : v[i] = 0

\* C1: for every non-empty category table and query vector, top2 applied
\* through classify returns two candidates whose users are different.
\* Stated here for the tables and queries without a zero vector only, where
\* every score is a number.
C1_Top2UsersDiffer ==
    (/\ pc = "top2"
     /\ categories # <<>>
     /\ \A i \in DOMAIN cosines : ~cosines[i].cosine.nan) =>
        /\ Len(selected) = 2
        /\ selected[1].user # selected[2].user

\* C2 as stated: one candidate, its score at least every score of the table,
\* and of the users tied for the maximum the first in the order of
\* all_cosines. Stated here for the tables without a zero vector only, where
\* every score is a number.
C2_FirstTiedUserWins ==
    (/\ pc = "top1"
     /\ categories # <<>>
     /\ \A i \in DOMAIN cosines : ~cosines[i].cosine.nan) =>
        /\ Len(selected) = 1
        /\ \A i \in DOMAIN cosines : CosGE(selected[1].cosine, cosines[i].cosine)
        /\ LET tied == {i \in DOMAIN cosines :
                           CosEq(cosines[i].cosine, selected[1].cosine)}
               first == CHOOSE i \in tied : \A j \in tied : i <= j
           IN  selected[1].user = cosines[first].user

\* C2 as amended: classify with the default policy returns exactly one
\* candidate of the scored list (one entry per entry of the table, in its
\* order), no user of the table has a strictly greater score, and of the
\* users whose score equals the chosen score the chosen user is the one with
\* the greatest identifier.
C2_GreatestTiedUserWins ==
    (pc = "top1" /\ categories # <<>>) =>
        /\ error = "none"
        /\ Len(cosines) = Len(categories)
        /\ \A i \in DOMAIN cosines : cosines[i].user = categories[i].user
        /\ Len(selected) = 1
        /\ \E i \in DOMAIN cosines : selected[1] = cosines[i]
        /\ \A i \in DOMAIN cosines : ~CosGT(cosines[i].cosine, selected[1].cosine)
        /\ \A i \in DOMAIN cosines :
               CosEq(cosines[i].cosine, selected[1].cosine)
                   => cosines[i].user <= selected[1].user

\* two users tied for the maximum, the second of the list chosen
C2_Witness ==
    /\ pc = "top1"
    /\ Len(cosines) = 2
    /\ CosEq(cosines[1].cosine, cosines[2].cosine)
    /\ cosines[1].cosine.num > 0
    /\ selected = <<cosines[2]>>

\* C6: a call of cosine_similarity with an all-zero category vector or title
\* vector either fails with an error or returns 0; it never returns NaN
\* into the list of all_cosines.
C6_ZeroVectorHandled ==
    pc \in {"top1", "top2"} =>
        \A i \in DOMAIN cosines :
            (ZeroVector(categories[i].vector) \/ ZeroVector(title_vector.vector)) =>
                \/ error # "none"
                \/ (~cosines[i].cosine.nan /\ cosines[i].cosine.num = 0)

----------------------------------------------------------------------------
(* SpecStep: the counting of the evaluation loop on any set of known users, *)
(* any true user among them (the loop takes both from val_users) and any    *)
(* list of predictions.                                                     *)

InitStep ==
    /\ pc = "counting"
    /\ error = "none"
    /\ NoIndex
    /\ NoClassification
    /\ NoData
    /\ tally = ZeroTally
    /\ count = 0
    /\ user = 0
    /\ predictions = <<>>
    /\ known_users \in SUBSET Users \ {{}}

EvaluateStep ==
    /\ pc = "counting"
    /\ count < MaxSteps
    /\ \E true_user \in known_users, predicted \in SeqsUpTo(Users, MaxPredictions) :
           /\ user' = true_user
           /\ predictions' = predicted
           /\ tally' = evaluate(tally, true_user, predicted, known_users)
    /\ count' = count + 1
    /\ UNCHANGED <<pc, error, index_vars, classify_vars, known_users, main_vars>>

NextStep == EvaluateStep

SpecStep == InitStep /\ [][NextStep]_vars

----------------------------------------------------------------------------
(* Claims checked under SpecStep *)

\* C3: one evaluation step with true user u, predictions P and known users K
\* adds to true-positive the number of predicted users equal to u, to
\* false-positive the number of predicted users different from u, to
\* false-negative the number of users of K minus P equal to u, to
\* true-negative the number of users of K minus P different from u; no counter
\* decreases; for u = X, P = {X, Z}, K = {X, Y, Z} from zero the counters are
\* TP=1, FP=1, FN=0, TN=1 (X, Y, Z are the users 1, 2, 3).
C3_StepCounts ==
    [][count' = count + 1 =>
        LET u == user'
            P == predictions'
            rest == known_users \ Range(P)
        IN  /\ tally'.true_positive = tally.true_positive
                   + Cardinality({i \in DOMAIN P : P[i] = u})
            /\ tally'.false_positive = tally.false_positive
                   + Cardinality({i \in DOMAIN P : P[i] # u})
            /\ tally'.false_negative = tally.false_negative
                   + Cardinality({k \in rest : k = u})
            /\ tally'.true_negative = tally.true_negative
                   + Cardinality({k \in rest : k # u})
            /\ tally'.true_positive >= tally.true_positive
            /\ tally'.false_positive >= tally.false_positive
            /\ tally'.false_negative >= tally.false_negative
            /\ tally'.true_negative >= tally.true_negative
            /\ (/\ tally = ZeroTally
                /\ u = 1
                /\ Len(P) = 2
                /\ Range(P) = {1, 3}
                /\ known_users = {1, 2, 3})
               => tally' = [true_positive |-> 1, true_negative |-> 1,
                            false_positive |-> 1, false_negative |-> 0]
    ]_vars

\* the step of the example: u = X, P = [X, Z], K = {X, Y, Z}
C3_Witness ==
    /\ pc = "counting"
    /\ count = 1
    /\ user = 1
    /\ predictions = <<1, 3>>
    /\ known_users = {1, 2, 3}
    /\ tally = [true_positive |-> 1, true_negative |-> 1,
                false_positive |-> 1, false_negative |-> 0]

----------------------------------------------------------------------------
(* SpecMain: the main script on any training and validation data.          *)
(* csv_reader is not part of the model: read() is any pair of lists of the  *)
(* same length.                                                            *)

\* the titles of the data: empty, "a", "b a" with irregular blanks, "a b a"
Texts == {<<>>, <<"a">>, <<" ", "b", " ", " ", "a">>,
          <<"a", " ", "b", " ", "a">>}

\* the users of the data
MainUsers == {1, 2}

\* Of the orders in which the set of n-grams may be iterated SpecMain takes
\* two, an order and its reverse (SpecIndex takes them all): the script uses
\* the table only to look n-grams up and to form dot products and norms,
\* which are the same for every numbering of the slots.
RECURSIVE AnOrder(_)
AnOrder(S) ==
    IF S = {} THEN <<>>
    ELSE LET x == CHOOSE x \in S : TRUE IN <<x>> \o AnOrder(S \ {x})

TwoOrders(S) ==
    LET order == AnOrder(S)
    IN  {order, [i \in 1..Len(order) |-> order[Len(order) + 1 - i]]}

RECURSIVE category_loop(_, _, _, _)
category_loop(grams_index_table, user_title_table, i, table) ==
    IF i > Len(user_title_table) THEN [error |-> "none", table |-> table]
    ELSE LET v == build_title_vector(grams_index_table,
                                     split(user_title_table[i].title))
         IN  IF v.error # "none" THEN [error |-> v.error, table |-> <<>>]
             ELSE category_loop(grams_index_table, user_title_table, i + 1,
                      Append(table, [user |-> user_title_table[i].user,
                                     vector |-> v.vector]))

make_category_table(grams_index_table, user_title_table) ==
    category_loop(grams_index_table, user_title_table, 1, <<>>)

InitMain ==
    /\ pc = "read"
    /\ error = "none"
    /\ NoIndex
    /\ NoClassification
    /\ \E n \in 0..MaxTraining :
           /\ titles \in [1..n -> Texts]
           /\ users \in [1..n -> MainUsers]
    /\ \E n \in 0..MaxValidation :
           /\ val_titles \in [1..n -> Texts]
           /\ val_users \in [1..n -> MainUsers]
    /\ user2full_title = <<>>
    /\ user2full_title_val = <<>>
    /\ stats = NoStats
    /\ tally = ZeroTally
    /\ count = 0
    /\ user = 0
    /\ predictions = <<>>
    /\ known_users = Range(val_users)

\* lines 134-136
GroupTitles ==
    /\ pc = "read"
    /\ user2full_title' = user_titles_table(titles, users)
    /\ user2full_title_val' = user_titles_table(val_titles, val_users)
    /\ pc' = "grouped"
    /\ UNCHANGED <<error, index_vars, classify_vars, eval_vars, titles, users,
                   val_titles, val_users, stats>>

\* lines 142-150
BuildVocabulary ==
    /\ pc = "grouped"
    /\ words' = corpus_words(user2full_title, user2full_title_val)
    /\ \E order \in TwoOrders(gram_set(words')) :
           all_grams_index_table' = build_index_table(words', order)
    /\ pc' = "vocabulary"
    /\ UNCHANGED <<error, title_words, title_vector, classify_vars, eval_vars,
                   main_vars>>

\* lines 154-164
MakeCategories ==
    /\ pc = "vocabulary"
    /\ LET made == make_category_table(all_grams_index_table, user2full_title)
       IN  /\ categories' = made.table
           /\ error' = made.error
           /\ pc' = IF made.error = "none" THEN "evaluating" ELSE "crashed"
    /\ UNCHANGED <<index_vars, cosines, selected, eval_vars, main_vars>>

\* lines 173-194 for one example: the outcomes of classify with top2, the
\* counting, and print_stats when the new count is a multiple of StatsPeriod
loop_body(category_table, vector, true_user, c, n, known, last_stats) ==
    {IF outcome.error # "none"
     THEN [error |-> outcome.error, selected |-> <<>>, predictions |-> <<>>,
           tally |-> c, count |-> n, stats |-> last_stats]
     ELSE LET predicted == [i \in DOMAIN outcome.selected |->
                               outcome.selected[i].user]
              counted == evaluate(c, true_user, predicted, known)
              printed == IF (n + 1) % StatsPeriod = 0
                         THEN print_stats(counted.true_positive,
                                  counted.true_negative, counted.false_negative,
                                  counted.false_positive, n + 1)
                         ELSE last_stats
          IN  [error |-> printed.error, selected |-> outcome.selected,
               predictions |-> predicted, tally |-> counted, count |-> n + 1,
               stats |-> printed]
     : outcome \in classify(category_table, vector, "top2")}

\* lines 171-194: one pass of the loop over zip(val_titles, val_users)
ClassifyExample ==
    /\ pc = "evaluating"
    /\ count < Len(val_titles)
    /\ LET title == val_titles[count + 1]
           true_user == val_users[count + 1]
           vec == build_title_vector(all_grams_index_table, split(title))
       IN  /\ user' = true_user
           /\ title_words' = split(title)
           /\ title_vector' = vec
           /\ IF vec.error # "none"
              THEN /\ error' = vec.error
                   /\ pc' = "crashed"
                   /\ UNCHANGED <<cosines, selected, predictions, tally, count, stats>>
              ELSE /\ cosines' = all_cosines(categories, vec.vector)
                   /\ \E after \in loop_body(categories, vec.vector, true_user,
                                      tally, count, Range(val_users), stats) :
                          /\ selected' = after.selected
                          /\ predictions' = after.predictions
                          /\ tally' = after.tally
                          /\ count' = after.count
                          /\ stats' = after.stats
                          /\ error' = after.error
                          /\ pc' = IF after.error = "none"
                                   THEN "evaluating" ELSE "crashed"
    /\ UNCHANGED <<words, all_grams_index_table, categories, known_users, titles,
                   users, val_titles, val_users, user2full_title,
                   user2full_title_val>>

\* lines 196-200
Finish ==
    /\ pc = "evaluating"
    /\ count = Len(val_titles)
    /\ stats' = print_stats(tally.true_positive, tally.true_negative,
                            tally.false_negative, tally.false_positive, count)
    /\ error' = stats'.error
    /\ pc' = IF stats'.error = "none" THEN "done" ELSE "crashed"
    /\ UNCHANGED <<index_vars, classify_vars, eval_vars, titles, users,
                   val_titles, val_users, user2full_title, user2full_title_val>>

NextMain ==
    GroupTitles \/ BuildVocabulary \/ MakeCategories \/ ClassifyExample \/ Finish

SpecMain == InitMain /\ [][NextMain]_vars

----------------------------------------------------------------------------
(* Claims checked under SpecMain *)

\* C9: the index table of the main script holds every n-gram (order 1 to 3)
\* of every per-user joined training text and of every single validation
\* title, so no call of build_title_vector by make_category_table or by the
\* evaluation loop fails with a missing n-gram.
C9_VocabularyCoversAllTexts ==
    /\ error # "KeyError"
    /\ pc \in {"vocabulary", "evaluating", "crashed", "done"} =>
           /\ \A k \in DOMAIN user2full_title :
                  Windows(split(user2full_title[k].title))
                      \subseteq DOMAIN all_grams_index_table
           /\ \A i \in DOMAIN val_titles :
                  Windows(split(val_titles[i]))
                      \subseteq DOMAIN all_grams_index_table
           /\ Len(user2full_title) = Cardinality(Range(users))
    /\ pc \in {"evaluating", "done"} =>
           /\ Len(categories) = Len(user2full_title)
           /\ count > 0 => title_vector.error = "none"

\* a run in which a user has a training title, another user two validation
\* titles joined to a text of five words, and the last validation title, one
\* of three words, has been vectorized
C9_Witness ==
    /\ pc = "evaluating"
    /\ Len(categories) = 1
    /\ Len(user2full_title_val) = 1
    /\ user2full_title_val[1].user # user2full_title[1].user
    /\ Len(split(user2full_title_val[1].title)) = 5
    /\ count = 2
    /\ val_users[1] = val_users[2]
    /\ Len(title_words) = 3
    /\ title_vector.error = "none"

\* C10: after k validation examples of the evaluation loop,
\* true_positive + false_negative = k. Stated here for the states in which
\* every score of the last example is a number.
C10_TrueUserCountedOnce ==
    (/\ pc \in {"evaluating", "done"}
     /\ \A i \in DOMAIN cosines : ~cosines[i].cosine.nan) =>
        tally.true_positive + tally.false_negative = count

----------------------------------------------------------------------------
(* SpecEval: the evaluation loop and its calls of print_stats, up to        *)
(* MaxExamples validation examples of one user. The category table is any   *)
(* table of up to MaxEvalCategories entries and the title vector of each    *)
(* example any vector; the validation list is [user] * n for any n, which   *)
(* the loop does not know before it ends.                                   *)

InitEval ==
    /\ pc = "evaluating"
    /\ error = "none"
    /\ words = <<>>
    /\ all_grams_index_table = <<>>
    /\ title_words = <<>>
    /\ title_vector = NoVector
    /\ categories \in {t \in CategoryTables : Len(t) <= MaxEvalCategories}
    /\ cosines = <<>>
    /\ selected = <<>>
    /\ tally = ZeroTally
    /\ count = 0
    /\ user = 0
    /\ predictions = <<>>
    /\ known_users \in {{}} \cup {{u} : u \in Users}
    /\ NoData

\* lines 171-194, with any title vector in the place of line 172
EvaluateExample ==
    /\ pc = "evaluating"
    /\ count < MaxExamples
    /\ \E true_user \in known_users, vector \in Vectors :
           /\ user' = true_user
           /\ title_vector' = [error |-> "none", vector |-> vector]
           /\ cosines' = all_cosines(categories, vector)
           /\ \E after \in loop_body(categories, vector, true_user, tally,
                              count, known_users, stats) :
                  /\ selected' = after.selected
                  /\ predictions' = after.predictions
                  /\ tally' = after.tally
                  /\ count' = after.count
                  /\ stats' = after.stats
                  /\ error' = after.error
                  /\ pc' = IF after.error = "none" THEN "evaluating" ELSE "crashed"
    /\ UNCHANGED <<words, all_grams_index_table, title_words, categories,
                   known_users, titles, users, val_titles, val_users,
                   user2full_title, user2full_title_val>>

\* lines 196-200: the list ends; it is empty exactly if set(val_users) is
FinishEval ==
    /\ pc = "evaluating"
    /\ count = 0 <=> known_users = {}
    /\ stats' = print_stats(tally.true_positive, tally.true_negative,
                            tally.false_negative, tally.false_positive, count)
    /\ error' = stats'.error
    /\ pc' = IF stats'.error = "none" THEN "done" ELSE "crashed"
    /\ UNCHANGED <<index_vars, classify_vars, eval_vars, titles, users,
                   val_titles, val_users, user2full_title, user2full_title_val>>

NextEval == EvaluateExample \/ FinishEval

SpecEval == InitEval /\ [][NextEval]_vars

----------------------------------------------------------------------------
(* Claims checked under SpecEval *)

\* C5: when print_stats is called with counters that make a divisor zero
\* (TP+FP = 0, TP+FN = 0 or precision+recall = 0), in the loop every
\* StatsPeriod examples or after it, the call reports a value and does not
\* crash.
C5_UndefinedMetricReported ==
    error # "ZeroDivisionError"

====
